---- MODULE Spec2Model ----
(***************************************************************************)
(* Model of simplify-flat-array (src/index.js): simplification of a flat   *)
(* 2D coordinate array [x0,y0,x1,y1,...] by Douglas-Peucker or by          *)
(* Visvalingam-Whyatt.                                                     *)
(*                                                                         *)
(* Representation.                                                         *)
(*  - A flat array is a sequence of integers; the JS index i is the TLA+   *)
(*    index i+1 (operator At).                                             *)
(*  - Coordinates are integers, arithmetic is exact.                       *)
(*  - tolerance is kept in half units (tolerance = k/2 is stored as k), so *)
(*    that the default Visvalingam tolerance 0.5 is representable.         *)
(*  - perpendicularDistance returns Math.hypot(..), a square root of a     *)
(*    rational.  The model keeps the SQUARED distance as a fraction        *)
(*    <<num, den>> with den > 0; every comparison the code makes between   *)
(*    distances (all non-negative) is made on the squares.                 *)
(*  - triangleArea returns |cross| / 2; the model keeps areas DOUBLED      *)
(*    (the integer |cross|), and compares them with the tolerance in half  *)
(*    units, which is the same comparison.                                 *)
(*  - null is Null, Infinity is Infinity (larger than any area).           *)
(*  - A RangeError (call stack exhausted) is pc = "error".                 *)
(***************************************************************************)
EXTENDS Integers, Sequences, FiniteSets, TLC

\* ---------------------------------------------------------------- bounds
MaxX == 2
MaxY == 1
MaxPoints == 4

\* Depth at which the call stack is exhausted.  A recursion that narrows its
\* range at every call never gets deeper than the number of points.
StackLimit == MaxPoints + 3

\* ------------------------------------------------------------- constants
Null == -1
Retired == -2
Infinity == 1000000

\* ------------------------------------------------------------- utilities
At(a, i) == a[i + 1]

Abs(v) == IF v < 0 THEN 0 - v ELSE v

RECURSIVE Flatten(_)
Flatten(ps) ==
    IF ps = <<>> THEN <<>>
    ELSE <<Head(ps)[1], Head(ps)[2]>> \o Flatten(Tail(ps))

Coords == (0 .. MaxX) \X (0 .. MaxY)

\* Both engines read the coordinates through differences only (dx, dy,
\* px - x1, the cross product of triangleArea), so the paths are taken up to
\* translation: the first point is the origin.
Inputs ==
    { << >> } \cup
    UNION { { << 0, 0 >> \o Flatten(ps) : ps \in [1 .. k - 1 -> Coords] } : k \in 1 .. MaxPoints }

\* tolerances in half units: -1, 0, 0.5 and 1 (the Douglas-Peucker default)
DPTolerances == { -2, 0, 1, 2 }

\* tolerances in half units: 0, 0.5 (the Visvalingam default) and 1
VWTolerances == { 0, 1, 2 }

\* ---------------------------------------------------- geometry (squared)
\* squared distance as a fraction <<num, den>>
perpendicularDistance(px, py, x1, y1, x2, y2) ==
    LET dx == x2 - x1
        dy == y2 - y1
        dot == (px - x1) * dx + (py - y1) * dy
        len2 == dx * dx + dy * dy
    IN  IF dx = 0 /\ dy = 0
        THEN << (px - x1) * (px - x1) + (py - y1) * (py - y1), 1 >>
        ELSE IF dot <= 0          \* t clamped to 0: projection is (x1, y1)
        THEN << (px - x1) * (px - x1) + (py - y1) * (py - y1), 1 >>
        ELSE IF dot >= len2       \* t clamped to 1: projection is (x2, y2)
        THEN << (px - x2) * (px - x2) + (py - y2) * (py - y2), 1 >>
        ELSE LET ex == (px - x1) * len2 - dot * dx   \* (px - projX) * len2
                 ey == (py - y1) * len2 - dot * dy   \* (py - projY) * len2
             IN  << ex * ex + ey * ey, len2 * len2 >>

\* dist > maxDist on two squared fractions
DistGreater(d, m) == d[1] * m[2] > m[1] * d[2]

\* maxDist > tolerance, tolerance in half units
ExceedsTolerance(m, tol) ==
    IF tol < 0 THEN TRUE ELSE 4 * m[1] > tol * tol * m[2]

\* doubled area
triangleArea(x1, y1, x2, y2, x3, y3) ==
    Abs(x1 * (y2 - y3) + x2 * (y3 - y1) + x3 * (y1 - y2))

\* ------------------------------------------------------- Douglas-Peucker
\* the for loop of simplifyDP: [maxDist, index] after scanning from i
RECURSIVE ScanMax(_, _, _, _, _, _)
ScanMax(pts, first, last, i, maxDist, index) ==
    IF i >= last THEN [maxDist |-> maxDist, index |-> index]
    ELSE LET dist == perpendicularDistance(At(pts, i), At(pts, i + 1),
                                           At(pts, first), At(pts, first + 1),
                                           At(pts, last), At(pts, last + 1))
         IN  IF DistGreater(dist, maxDist)
             THEN ScanMax(pts, first, last, i + 2, dist, i)
             ELSE ScanMax(pts, first, last, i + 2, maxDist, index)

\* mutant: the scan starts one point late
ScanSkipFirst(pts, first, last) == ScanMax(pts, first, last, first + 4, <<0, 1>>, 0)

Scan(pts, first, last) == ScanMax(pts, first, last, first + 2, <<0, 1>>, 0)

\* what simplifyDP(points, first, last, tolerance, result) appends to result
\* (used for tolerance >= 0 only, where the recursion narrows)
RECURSIVE simplifyDP(_, _, _, _)
simplifyDP(pts, first, last, tol) ==
    LET s == Scan(pts, first, last)
    IN  IF ExceedsTolerance(s.maxDist, tol)
        THEN simplifyDP(pts, first, s.index, tol)
             \o << At(pts, s.index), At(pts, s.index + 1) >>
             \o simplifyDP(pts, s.index, last, tol)
        ELSE << >>

\* mutant: the last point is never added
PushLastNever(pts, res) == res

\* lines 64-68: the last point is added unless the result already ends in it
PushLast(pts, res) ==
    LET len == Len(pts)
    IN  IF At(res, Len(res) - 2) # At(pts, len - 2) \/ At(res, Len(res) - 1) # At(pts, len - 1)
        THEN res \o << At(pts, len - 2), At(pts, len - 1) >>
        ELSE res

simplifyDouglasPeucker(pts, tol, hq) ==
    IF Len(pts) < 6 THEN pts
    ELSE PushLast(pts, << At(pts, 0), At(pts, 1) >> \o simplifyDP(pts, 0, Len(pts) - 2, tol))

\* ---------------------------------------------------- Visvalingam-Whyatt
PointCount(pts) == Len(pts) \div 2          \* points.length >> 1

\* triangleArea over the points with indices a, b, c
AreaOf(pts, a, b, c) ==
    triangleArea(At(pts, a * 2), At(pts, a * 2 + 1),
                 At(pts, b * 2), At(pts, b * 2 + 1),
                 At(pts, c * 2), At(pts, c * 2 + 1))

\* lines 147-160 apply: the path is closed and has more than 3 points
Cyclic(pts, cl) == cl /\ PointCount(pts) > 3

\* lines 125-160
InitPrev(pts, cl) ==
    LET n == PointCount(pts)
    IN  [i \in 0 .. n - 1 |->
            IF i = 0 THEN (IF Cyclic(pts, cl) THEN n - 1 ELSE Null) ELSE i - 1]

InitNext(pts, cl) ==
    LET n == PointCount(pts)
    IN  [i \in 0 .. n - 1 |->
            IF i = n - 1 THEN (IF Cyclic(pts, cl) THEN 0 ELSE Null) ELSE i + 1]

InitAreas(pts, cl) ==
    LET n == PointCount(pts)
    IN  [i \in 0 .. n - 1 |->
            IF i >= 1 /\ i < n - 1 THEN AreaOf(pts, i - 1, i, i + 1)
            ELSE IF ~Cyclic(pts, cl) THEN Infinity
            ELSE IF i = 0 THEN AreaOf(pts, n - 1, 0, 1)
            ELSE AreaOf(pts, n - 2, n - 1, 0)]

\* mutant: the loop runs while remaining >= targetPoints
LoopCondInclusive(rem, target) == rem > 3 /\ (target = Null \/ rem >= target)

\* mutant: the floor is 2 instead of 3
LoopCondFloorTwo(rem, target) == rem > 2 /\ (target = Null \/ rem > target)

\* line 165
LoopCond(rem, target) == rem > 3 /\ (target = Null \/ rem > target)

\* lines 167-175: [minArea, minIdx] after scanning from i
RECURSIVE MinScan(_, _, _, _, _)
MinScan(ar, n, i, minArea, idx) ==
    IF i >= n THEN [minArea |-> minArea, minIdx |-> idx]
    ELSE IF ar[i] # Retired /\ ar[i] < minArea
         THEN MinScan(ar, n, i + 1, ar[i], i)
         ELSE MinScan(ar, n, i + 1, minArea, idx)

FindMin(ar, n) == MinScan(ar, n, 0, Infinity, -1)

\* lines 177-187: the iteration leaves the loop without removing a point
Breaks(m, n, tol, target, pv, nx) ==
    \/ (m.minArea > tol /\ target = Null)
    \/ m.minIdx = -1 \/ m.minIdx = 0 \/ m.minIdx = n - 1
    \/ pv[m.minIdx] = Null \/ nx[m.minIdx] = Null

\* lines 196 and 204: the neighbour's area is recomputed
RecomputePrev(ar, pPrev) == pPrev # Null /\ ar[pPrev] # Retired /\ pPrev # 0

RecomputeNext(ar, pNext, n) == pNext # Null /\ ar[pNext] # Retired /\ pNext # n - 1

\* mutant: the ring is never closed
CloseRingNever(res, cl) == res

\* lines 223-226
CloseRing(res, cl) ==
    IF cl /\ Len(res) >= 4 THEN res \o << At(res, 0), At(res, 1) >> ELSE res

\* ----------------------------------------------------------------- state
VARIABLES points, tolerance, highQuality, algorithm, targetPoints, closed,
          pc, result, stack, areas, prev, next, remaining, minIdx, current,
          pass, firstResult, input

vars == << points, tolerance, highQuality, algorithm, targetPoints, closed,
           pc, result, stack, areas, prev, next, remaining, minIdx, current,
           pass, firstResult, input >>

args == << tolerance, highQuality, algorithm, targetPoints, closed, input >>
dpVars == << stack >>
vwVars == << areas, prev, next, remaining, minIdx, current >>

\* options.algorithm: "none" is a call without options.algorithm
Algorithms == { "none", "douglas-peucker", "visvalingam", "other" }

TargetCounts == 3 .. MaxPoints

\* line 40-47: which engine runs
RunsVisvalingam(alg) == alg # "none" /\ alg # "douglas-peucker" /\ alg = "visvalingam"

Init ==
    /\ points \in Inputs
    /\ algorithm \in Algorithms
    /\ \/ /\ algorithm = "none"
          /\ \/ tolerance \in DPTolerances /\ highQuality = FALSE
             \/ tolerance = 2 /\ highQuality = TRUE
          /\ targetPoints = Null
          /\ closed = FALSE
       \/ /\ algorithm \in { "douglas-peucker", "other" }
          /\ tolerance = 2
          /\ highQuality = FALSE
          /\ targetPoints = Null
          /\ closed = FALSE
       \/ /\ algorithm = "visvalingam"
          /\ highQuality = FALSE
          /\ closed \in BOOLEAN
          /\ \/ targetPoints = Null /\ tolerance \in VWTolerances
             \/ targetPoints \in TargetCounts /\ tolerance = 1
    /\ pc = "call"
    /\ result = << >>
    /\ stack = << >>
    /\ areas = << >>
    /\ prev = << >>
    /\ next = << >>
    /\ remaining = 0
    /\ minIdx = -1
    /\ current = 0
    /\ pass = 1
    /\ firstResult = << >>
    /\ input = points

\* ------------------------------------------------------------- simplify
\* lines 23-25
PassThrough ==
    /\ pc = "call"
    /\ Len(points) < 6
    /\ result' = points
    /\ pc' = "done"
    /\ UNCHANGED << points, args, dpVars, vwVars, pass, firstResult >>

\* mutant: the recursion covers the range up to len-4 only
CallDouglasPeuckerShort ==
    /\ pc = "call"
    /\ Len(points) >= 6
    /\ ~RunsVisvalingam(algorithm)
    /\ result' = << At(points, 0), At(points, 1) >>
    /\ stack' = << [first |-> 0, last |-> Len(points) - 4, index |-> 0, stage |-> "enter"] >>
    /\ pc' = "dp"
    /\ UNCHANGED << points, args, vwVars, pass, firstResult >>

\* lines 40-41, 46 and 52-62: the first point is pushed, simplifyDP is called
CallDouglasPeucker ==
    /\ pc = "call"
    /\ Len(points) >= 6
    /\ ~RunsVisvalingam(algorithm)
    /\ result' = << At(points, 0), At(points, 1) >>
    /\ stack' = << [first |-> 0, last |-> Len(points) - 2, index |-> 0, stage |-> "enter"] >>
    /\ pc' = "dp"
    /\ UNCHANGED << points, args, vwVars, pass, firstResult >>

\* lines 73-94: scan, then either recurse on [first, index] or return
DPEnter ==
    /\ pc = "dp"
    /\ stack # << >>
    /\ LET d == Len(stack)
           f == stack[d]
           s == Scan(points, f.first, f.last)
       IN  /\ f.stage = "enter"
           /\ IF ExceedsTolerance(s.maxDist, tolerance)
              THEN IF d + 1 > StackLimit
                   THEN /\ pc' = "error"
                        /\ stack' = stack
                   ELSE /\ pc' = pc
                        /\ stack' = [stack EXCEPT ![d] = [f EXCEPT !.index = s.index, !.stage = "left"]]
                                    \o << [first |-> f.first, last |-> s.index, index |-> 0, stage |-> "enter"] >>
              ELSE /\ pc' = pc
                   /\ stack' = SubSeq(stack, 1, d - 1)
    /\ UNCHANGED << points, args, result, vwVars, pass, firstResult >>

\* lines 95-96: the left call returned; push the max point, recurse on [index, last]
DPMiddle ==
    /\ pc = "dp"
    /\ stack # << >>
    /\ LET d == Len(stack)
           f == stack[d]
       IN  /\ f.stage = "left"
           /\ result' = result \o << At(points, f.index), At(points, f.index + 1) >>
           /\ stack' = [stack EXCEPT ![d] = [f EXCEPT !.stage = "right"]]
                       \o << [first |-> f.index, last |-> f.last, index |-> 0, stage |-> "enter"] >>
    /\ UNCHANGED << points, args, pc, vwVars, pass, firstResult >>

\* line 97-98: the right call returned; this call returns
DPReturn ==
    /\ pc = "dp"
    /\ stack # << >>
    /\ stack[Len(stack)].stage = "right"
    /\ stack' = SubSeq(stack, 1, Len(stack) - 1)
    /\ UNCHANGED << points, args, pc, result, vwVars, pass, firstResult >>

\* lines 64-70
DPFinish ==
    /\ pc = "dp"
    /\ stack = << >>
    /\ result' = PushLast(points, result)
    /\ pc' = "done"
    /\ UNCHANGED << points, args, dpVars, vwVars, pass, firstResult >>

\* lines 42-43 and 120-163
CallVisvalingam ==
    /\ pc = "call"
    /\ Len(points) >= 6
    /\ RunsVisvalingam(algorithm)
    /\ areas' = InitAreas(points, closed)
    /\ prev' = InitPrev(points, closed)
    /\ next' = InitNext(points, closed)
    /\ remaining' = PointCount(points)
    /\ pc' = "vw_loop"
    /\ UNCHANGED << points, args, result, dpVars, minIdx, current, pass, firstResult >>

\* lines 165-210: one iteration that removes the point of smallest area
VWRemove ==
    /\ pc = "vw_loop"
    /\ LoopCond(remaining, targetPoints)
    /\ LET n == PointCount(points)
           m == FindMin(areas, n)
       IN  /\ ~Breaks(m, n, tolerance, targetPoints, prev, next)
           /\ LET pPrev == prev[m.minIdx]
                  pNext == next[m.minIdx]
                  next1 == [next EXCEPT ![pPrev] = pNext]
                  prev1 == [prev EXCEPT ![pNext] = pPrev]
                  areas1 == [areas EXCEPT ![m.minIdx] = Retired]
                  areas2 == IF RecomputePrev(areas1, pPrev)
                            THEN [areas1 EXCEPT ![pPrev] = AreaOf(points, prev1[pPrev], pPrev, pNext)]
                            ELSE areas1
                  areas3 == IF RecomputeNext(areas2, pNext, n)
                            THEN [areas2 EXCEPT ![pNext] = AreaOf(points, pPrev, pNext, next1[pNext])]
                            ELSE areas2
              IN  /\ next' = next1
                  /\ prev' = prev1
                  /\ areas' = areas3
                  /\ remaining' = remaining - 1
                  /\ minIdx' = m.minIdx
    /\ UNCHANGED << points, args, pc, result, dpVars, current, pass, firstResult >>

\* lines 165, 177-187, 214-215: the loop ends, by its condition or by a break
VWStop ==
    /\ pc = "vw_loop"
    /\ LET n == PointCount(points)
           m == FindMin(areas, n)
       IN  IF LoopCond(remaining, targetPoints)
           THEN /\ Breaks(m, n, tolerance, targetPoints, prev, next)
                /\ minIdx' = m.minIdx
           ELSE minIdx' = minIdx
    /\ result' = << >>
    /\ current' = 0
    /\ pc' = "vw_walk"
    /\ UNCHANGED << points, args, dpVars, areas, prev, next, remaining, pass, firstResult >>

\* lines 217-228: one round of the do-while; on leaving it the ring is closed
VWWalk ==
    /\ pc = "vw_walk"
    /\ LET res == result \o << At(points, current * 2), At(points, current * 2 + 1) >>
           nxt == next[current]
       IN  IF nxt = Null \/ nxt = 0
           THEN /\ result' = CloseRing(res, closed)
                /\ current' = nxt
                /\ pc' = "done"
           ELSE /\ result' = res
                /\ current' = nxt
                /\ pc' = IF Len(res) > 2 * StackLimit THEN "error" ELSE pc
    /\ UNCHANGED << points, args, dpVars, areas, prev, next, remaining, minIdx, pass, firstResult >>

\* simplify(simplify(P, t), t): the output is simplified again with the same arguments
Resimplify ==
    /\ pc = "done"
    /\ pass = 1
    /\ ~RunsVisvalingam(algorithm)
    /\ pass' = 2
    /\ firstResult' = result
    /\ points' = result
    /\ result' = << >>
    /\ pc' = "call"
    /\ UNCHANGED << args, dpVars, vwVars >>

Next ==
    \/ PassThrough
    \/ CallDouglasPeucker
    \/ DPEnter
    \/ DPMiddle
    \/ DPReturn
    \/ DPFinish
    \/ CallVisvalingam
    \/ VWRemove
    \/ VWStop
    \/ VWWalk
    \/ Resimplify

Spec == Init /\ [][Next]_vars

TypeOK ==
    /\ pc \in { "call", "dp", "vw_loop", "vw_walk", "done", "error" }
    /\ Len(points) % 2 = 0
    /\ Len(result) % 2 = 0

\* ================================================================ claims
FirstPair(a) == << At(a, 0), At(a, 1) >>
LastPair(a) == << At(a, Len(a) - 2), At(a, Len(a) - 1) >>

DPRun == ~RunsVisvalingam(algorithm)
VWRun == RunsVisvalingam(algorithm)

\* the first call of simplify, on an input of at least 3 points, has returned
Returned == pc = "done" /\ pass = 1 /\ Len(points) >= 6

\* C1: on an open path of at least 3 points, for Douglas-Peucker with
\* tolerance >= 0 and for Visvalingam-Whyatt with closed = false, the first
\* and the last coordinate pair of the output are those of the input.
C1_EndpointsPreserved ==
    (Returned /\ ((DPRun /\ tolerance >= 0) \/ (VWRun /\ ~closed)))
        => /\ Len(result) >= 2
           /\ FirstPair(result) = FirstPair(points)
           /\ LastPair(result) = LastPair(points)

C1_Witness ==
    /\ Returned /\ DPRun /\ tolerance > 0
    /\ Len(result) >= 4 /\ Len(result) < Len(points)
    /\ FirstPair(points) # LastPair(points)

ZeroDeviation(pts) ==
    \E i, j, k \in 0 .. PointCount(pts) - 1 :
        /\ i < j /\ j < k
        /\ perpendicularDistance(At(pts, 2 * j), At(pts, 2 * j + 1),
                                 At(pts, 2 * i), At(pts, 2 * i + 1),
                                 At(pts, 2 * k), At(pts, 2 * k + 1))[1] = 0

\* C3 (as stated): Douglas-Peucker at tolerance 0 returns the input, no
\* point dropped, collinear and duplicate interior points included.
C3_ZeroToleranceIdentity ==
    (Returned /\ DPRun /\ tolerance = 0) => result = points

\* C3 (amended): Douglas-Peucker at tolerance 0 returns the input when no
\* input point lies on the segment joining an earlier and a later input
\* point (a point of zero deviation is dropped).
C3_ZeroToleranceIdentityNoZeroDeviation ==
    (Returned /\ DPRun /\ tolerance = 0 /\ ~ZeroDeviation(points)) => result = points

C3_Witness ==
    /\ Returned /\ DPRun /\ tolerance = 0 /\ ~ZeroDeviation(points)
    /\ Len(points) >= 8 /\ result = points

\* C4: Visvalingam-Whyatt with closed = true on at least 3 points: the output
\* walk from index 0 ends after at most n points, and the last coordinate
\* pair of the output is the first coordinate pair of the input.
C4_ClosedRingClosure ==
    (pass = 1 /\ Len(points) >= 6 /\ VWRun /\ closed)
        => /\ pc # "error"
           /\ pc = "vw_walk" => Len(result) < 2 * PointCount(points)
           /\ pc = "done" => LastPair(result) = FirstPair(points)

C4_Witness ==
    /\ Returned /\ VWRun /\ closed
    /\ remaining < PointCount(points)
    /\ Len(result) = 2 * (remaining + 1)
    /\ LastPair(result) = FirstPair(points)

\* C5 (as stated): Visvalingam-Whyatt in tolerance mode on n >= 3 points,
\* closed or not, returns at least 3 and at most n points.
C5_ShapeRetentionBound ==
    (Returned /\ VWRun /\ targetPoints = Null)
        => /\ Len(result) >= 2 * 3
           /\ Len(result) <= Len(points)

\* C5 (amended): in tolerance mode at least 3 and at most n points survive;
\* the output is the surviving points, plus the closing copy of the first
\* point when closed = true (so at most n + 1 pairs).
C5_ShapeRetentionBoundClosing ==
    (Returned /\ VWRun /\ targetPoints = Null)
        => /\ remaining >= 3
           /\ remaining <= PointCount(points)
           /\ Len(result) = 2 * (remaining + (IF closed THEN 1 ELSE 0))

C5_Witness ==
    /\ Returned /\ VWRun /\ targetPoints = Null
    /\ remaining = 3 /\ PointCount(points) > 3
    /\ Len(result) = 6

\* C6: Douglas-Peucker is idempotent for tolerance >= 0: simplifying the
\* output again with the same tolerance returns it unchanged.
C6_Idempotent ==
    (pc = "done" /\ pass = 2 /\ tolerance >= 0) => result = firstResult

C6_Witness ==
    /\ pc = "done" /\ pass = 2 /\ tolerance > 0
    /\ Len(firstResult) >= 6 /\ Len(firstResult) < Len(input)
    /\ result = firstResult

\* C7: every call of simplify returns without an error, for every tolerance,
\* negative ones included; every recursive call of simplifyDP is on a
\* strictly smaller sub-range than its caller.
C7_TerminatesWithoutError ==
    /\ pc # "error"
    /\ \A k \in 2 .. Len(stack) :
          /\ stack[k].first <= stack[k].last
          /\ stack[k].last - stack[k].first < stack[k - 1].last - stack[k - 1].first

\* the radial-distance pre-pass as the specification describes it: the first
\* point is kept, then every point farther than the tolerance from the last
\* kept point, and at the end the final point
RECURSIVE RadialWalk(_, _, _, _, _)
RadialWalk(pts, i, px, py, tol) ==
    IF i >= Len(pts)
    THEN IF px # At(pts, Len(pts) - 2) \/ py # At(pts, Len(pts) - 1)
         THEN << At(pts, Len(pts) - 2), At(pts, Len(pts) - 1) >>
         ELSE << >>
    ELSE LET x == At(pts, i)
             y == At(pts, i + 1)
         IN  IF 4 * ((x - px) * (x - px) + (y - py) * (y - py)) > tol * tol
             THEN << x, y >> \o RadialWalk(pts, i + 2, x, y, tol)
             ELSE RadialWalk(pts, i + 2, px, py, tol)

simplifyRadialDist(pts, tol) ==
    << At(pts, 0), At(pts, 1) >> \o RadialWalk(pts, 2, At(pts, 0), At(pts, 1), tol)

\* C8: with highQuality = false the output of the Douglas-Peucker engine is
\* the main pass applied to the points kept by the radial-distance pre-pass.
C8_PrePassThenMainPass ==
    (Returned /\ DPRun /\ ~highQuality /\ tolerance >= 0)
        => result = simplifyDouglasPeucker(simplifyRadialDist(points, tolerance), tolerance, TRUE)

\* C9: the Douglas-Peucker output on at least 3 points and tolerance >= 0
\* has at least 2 points, begins with input point 0 and ends with input
\* point n-1 as a separate entry.
C9_BothEndpointsPushed ==
    (Returned /\ DPRun /\ tolerance >= 0)
        => /\ Len(result) >= 4
           /\ FirstPair(result) = FirstPair(points)
           /\ LastPair(result) = LastPair(points)

\* an endpoint of an open path (areas fixed at Infinity)
ProtectedEndpoint(i) ==
    ~Cyclic(points, closed) /\ (i = 0 \/ i = PointCount(points) - 1)

\* C10: at the start of every iteration of the Visvalingam-Whyatt loop every
\* surviving node that is not a protected open-path endpoint carries the
\* area of the triangle with its current prev and next, index 0 and n-1 of a
\* closed path of more than 3 points included; a protected endpoint is at
\* +infinity.
C10_AreasCurrent ==
    (pc = "vw_loop")
        => \A i \in 0 .. PointCount(points) - 1 :
              IF ProtectedEndpoint(i) THEN areas[i] = Infinity
              ELSE areas[i] # Retired => areas[i] = AreaOf(points, prev[i], i, next[i])

====
